---- MODULE Spec2Model ----
(***************************************************************************)
(* A model of hypertemplate.py: the tag locator, the attribute parser, the *)
(* field resolver, the document expander, the build planner and run().     *)
(*                                                                         *)
(* Text is a sequence of tokens.  A token is a run of characters that the  *)
(* program's scans never split: a tag form such as `<--template`, a word   *)
(* of [\w-] characters, or one of the single characters the scans look at  *)
(* (`>`, `"`, `'`, `\`, space, `=`, `/`, `:`, `;`, `$`).  No token is the  *)
(* concatenation of other tokens, so a text has one tokenisation.          *)
(* Offsets are 0-based like Python's: Slice(text, a, b) is text[a:b].      *)
(***************************************************************************)
EXTENDS Integers, Sequences, FiniteSets, TLC

VARIABLES
    \* ---- run(): the file system and the position in run() ----
    src_pages,      \* find_files(docs_path): sequence of source files
    templates,      \* create_page_builds' templates dict: ident -> Document
    out_tree,       \* the output tree: set of files [relpath, mtime, content]
    out_before,     \* the output tree as run() found it (history)
    dry_run,        \* run()'s dry_run argument
    force_rebuild,  \* run()'s force_rebuild argument
    pc,             \* position in run()
    page_builds,    \* run()'s local page_builds
    idx,            \* position of the loop in progress, 1-based
    files_saved,    \* run()'s local files_saved
    status,         \* what run() ended with: a return code, or an exception
    raised,         \* the error run() reported or let escape
    warn_stack,     \* warn.stack
    printed,        \* what warn.print() has written, in order
    \* ---- the pure functions, called on their own ----
    fpc,            \* position of the function call
    in_text,        \* the text argument
    in_fields,      \* process_template's fields_provided
    in_inner,       \* process_template's inner_html
    in_atoms,       \* the parts in_text was put together from (history)
    ret             \* what the call returned or raised

run_vars == <<src_pages, templates, out_tree, out_before, dry_run,
              force_rebuild, pc, page_builds, idx, files_saved, status,
              raised, warn_stack, printed>>
fn_vars == <<fpc, in_text, in_fields, in_inner, in_atoms, ret>>
vars == <<src_pages, templates, out_tree, out_before, dry_run,
          force_rebuild, pc, page_builds, idx, files_saved, status,
          raised, warn_stack, printed,
          fpc, in_text, in_fields, in_inner, in_atoms, ret>>

(***************************************************************************)
(* Bounds of the model.                                                    *)
(***************************************************************************)
MaxLen == 6
MaxQuoted == 5
MaxAtoms == 4
MaxDepth == 2
MaxTime == 2

(***************************************************************************)
(* Tokens.                                                                 *)
(***************************************************************************)
DQ == "\""
SQ == "'"
BS == "\\"
GT == ">"
SP == " "
EQ == "="
SLASH == "/"
COLON == ":"
SEMI == ";"
DOLLAR == "$"

OpenForm(tag_name) == "<" \o tag_name
CloseForm(tag_name) == "</" \o tag_name

TemplateTag == "--template"
TOpen == OpenForm(TemplateTag)
TClose == CloseForm(TemplateTag)
TField == "<--field"
TInner == "<--inner-html"

\* Tokens made of [\w-] characters only.
Words == {"--name", "--default", "--fields", "card", "box", "bad", "nope",
          "title", "sub", "extra", "a", "Hi", "dflt", "x", "y", "body"}
\* Tokens that are `<` followed by [\w-] characters.
TagOpenToks == {TOpen, TField, TInner, "<h1", "<p"}

At(text, i) == text[i + 1]
Slice(text, a, b) == SubSeq(text, a + 1, b)
From(text, a) == SubSeq(text, a + 1, Len(text))

NoQuote == "None"
NotPresent == -1

(***************************************************************************)
(* index_ignore_quoted(text, string, begin_index): the first offset at or  *)
(* after begin_index where `string` (one token here) occurs outside        *)
(* quotes; NotPresent for the ValueError.                                  *)
(***************************************************************************)
RECURSIVE iiq_loop_escaped_close(_, _, _, _)
iiq_loop_escaped_close(text, string, i, quote) ==
    IF i > Len(text) - 1 THEN NotPresent
    ELSE IF quote = NoQuote
    THEN IF /\ At(text, i) \in {DQ, SQ}
            /\ ~(i > 0 /\ At(text, i - 1) = BS)
         THEN iiq_loop_escaped_close(text, string, i + 1, At(text, i))
         ELSE IF At(text, i) = string THEN i
         ELSE iiq_loop_escaped_close(text, string, i + 1, quote)
    ELSE IF At(text, i) = quote /\ ~(i > 0 /\ At(text, i - 1) = BS)
         THEN iiq_loop_escaped_close(text, string, i + 1, NoQuote)
         ELSE iiq_loop_escaped_close(text, string, i + 1, quote)

RECURSIVE iiq_loop(_, _, _, _)
iiq_loop(text, string, i, quote) ==
    IF i > Len(text) - 1 THEN NotPresent
    ELSE IF quote = NoQuote
    THEN IF /\ At(text, i) \in {DQ, SQ}
            /\ ~(i > 0 /\ At(text, i - 1) = BS)
         THEN iiq_loop(text, string, i + 1, At(text, i))
         ELSE IF At(text, i) = string THEN i
         ELSE iiq_loop(text, string, i + 1, quote)
    ELSE IF At(text, i) = quote
         THEN iiq_loop(text, string, i + 1, NoQuote)
         ELSE iiq_loop(text, string, i + 1, quote)

index_ignore_quoted(text, string, begin_index) ==
    iiq_loop(text, string, begin_index, NoQuote)

(***************************************************************************)
(* find_tag(tag_name, text).                                               *)
(***************************************************************************)
NoTag == [kind |-> "none", msg |-> "", start |-> 0, html_start |-> 0,
          html_end |-> 0, end |-> 0]
TagError(m) == [kind |-> "error", msg |-> m, start |-> 0, html_start |-> 0,
                html_end |-> 0, end |-> 0]
TagMatch(s, hs, he, e) == [kind |-> "match", msg |-> "", start |-> s,
                           html_start |-> hs, html_end |-> he, end |-> e]

\* re.search("</?" + tag_name, text[html_start:]), as an offset into text.
RECURSIVE search_form(_, _, _)
search_form(tag_name, text, i) ==
    IF i > Len(text) - 1 THEN NotPresent
    ELSE IF At(text, i) \in {OpenForm(tag_name), CloseForm(tag_name)} THEN i
    ELSE search_form(tag_name, text, i + 1)

RECURSIVE find_tag_outermost(_, _, _, _)
find_tag_outermost(tag_name, text, start, html_start) ==
    LET new_start == search_form(tag_name, text, html_start)
        gt == index_ignore_quoted(text, GT, new_start)
    IN  IF new_start = NotPresent
        THEN IF html_start = 0 THEN NoTag
             ELSE TagError("opening tag with no matching close")
        ELSE IF gt = NotPresent THEN TagError("missing >")
        ELSE IF At(text, new_start) = CloseForm(tag_name)
        THEN IF html_start = 0
             THEN TagError("closing tag with no matching open")
             ELSE TagMatch(start, html_start, new_start, gt + 1)
        ELSE find_tag_outermost(tag_name, text,
                                IF html_start = 0 THEN new_start ELSE start,
                                gt + 1)

RECURSIVE find_tag_loop(_, _, _, _)
find_tag_loop(tag_name, text, start, html_start) ==
    LET new_start == search_form(tag_name, text, html_start)
        gt == index_ignore_quoted(text, GT, new_start)
    IN  IF new_start = NotPresent
        THEN IF html_start = 0 THEN NoTag
             ELSE TagError("opening tag with no matching close")
        ELSE IF gt = NotPresent THEN TagError("missing >")
        ELSE IF At(text, new_start) = CloseForm(tag_name)
        THEN IF html_start = 0
             THEN TagError("closing tag with no matching open")
             ELSE TagMatch(start, html_start, new_start, gt + 1)
        ELSE find_tag_loop(tag_name, text, new_start, gt + 1)

find_tag(tag_name, text) == find_tag_loop(tag_name, text, 0, 0)

(***************************************************************************)
(* parse_attributes(tag).                                                  *)
(***************************************************************************)
EmptyMap == <<>>
MapPut(m, k, v) == [x \in (DOMAIN m) \cup {k} |-> IF x = k THEN v ELSE m[x]]
MapHas(m, k) == k \in DOMAIN m

\* The first offset at or after i whose token is not in S (S* of a regex).
RECURSIVE skip_in(_, _, _)
skip_in(text, i, S) ==
    IF i < Len(text) /\ At(text, i) \in S THEN skip_in(text, i + 1, S) ELSE i

\* The first offset at or after i holding token t, NotPresent if none.
RECURSIVE index_of(_, _, _)
index_of(text, t, i) ==
    IF i > Len(text) - 1 THEN NotPresent
    ELSE IF At(text, i) = t THEN i
    ELSE index_of(text, t, i + 1)

AttrsOk(a) == [kind |-> "ok", attrs |-> a, msg |-> ""]
AttrsError(m) == [kind |-> "DocumentError", attrs |-> EmptyMap, msg |-> m]

\* The loop matching ([\$\w-]+)\s*=\s*"([^"]*?)"\s* at the head of text.
RECURSIVE parse_attr_loop(_, _)
parse_attr_loop(text, acc) ==
    IF text = <<>> THEN AttrsOk(acc)
    ELSE LET name_end == skip_in(text, 0, Words \cup {DOLLAR})
             eq == skip_in(text, name_end, {SP})
             open == skip_in(text, eq + 1, {SP})
             close == index_of(text, DQ, open + 1)
         IN  IF \/ name_end = 0
                \/ eq > Len(text) - 1 \/ At(text, eq) # EQ
                \/ open > Len(text) - 1 \/ At(text, open) # DQ
                \/ close = NotPresent
             THEN AttrsError("invalid tag")
             ELSE parse_attr_loop(
                      From(text, skip_in(text, close + 1, {SP})),
                      MapPut(acc, Slice(text, 0, name_end),
                             Slice(text, open + 1, close)))

parse_attributes(tag) ==
    LET \* (^<\s*[\w-]+\s*)
        head == Len(tag) > 0 /\ At(tag, 0) \in TagOpenToks
        head_end == IF head
                    THEN skip_in(tag, skip_in(tag, 1, Words), {SP}) ELSE 0
        \* (\/?>$)
        tail == Len(tag) > head_end /\ At(tag, Len(tag) - 1) = GT
        tail_start == IF ~tail THEN Len(tag)
                      ELSE IF /\ Len(tag) - 2 >= head_end
                              /\ At(tag, Len(tag) - 2) = SLASH
                           THEN Len(tag) - 2 ELSE Len(tag) - 1
        n == (IF head THEN 1 ELSE 0) + (IF tail THEN 1 ELSE 0)
    IN  IF n # 2 THEN AttrsError("invalid tag")
        ELSE parse_attr_loop(Slice(tag, head_end, tail_start), EmptyMap)

(***************************************************************************)
(* process_template(template, fields_provided, inner_html).                *)
(***************************************************************************)
AttrName == <<"--name">>
AttrDefault == <<"--default">>
AttrFields == <<"--fields">>

\* One match of <tok(?: +[\w-]+ *= *"[^"\n\r]*?")* *\/?> at offset i: the
\* offset after the match, NotPresent if there is none.
RECURSIVE void_tag_rest(_, _)
void_tag_rest(text, j) ==
    LET name == skip_in(text, j, {SP})
        name_end == skip_in(text, name, Words)
        eq == skip_in(text, name_end, {SP})
        open == skip_in(text, eq + 1, {SP})
        close == index_of(text, DQ, open + 1)
        group == /\ name > j /\ name_end > name
                 /\ eq < Len(text) /\ At(text, eq) = EQ
                 /\ open < Len(text) /\ At(text, open) = DQ
                 /\ close # NotPresent
        slash == IF name < Len(text) /\ At(text, name) = SLASH
                 THEN name + 1 ELSE name
    IN  IF group THEN void_tag_rest(text, close + 1)
        ELSE IF slash < Len(text) /\ At(text, slash) = GT THEN slash + 1
        ELSE NotPresent

void_tag_at(text, i, tok) ==
    IF At(text, i) = tok THEN void_tag_rest(text, i + 1) ELSE NotPresent

\* re.finditer: the matches [start, end], left to right, not overlapping.
RECURSIVE find_void_tags(_, _, _)
find_void_tags(text, i, tok) ==
    IF i > Len(text) - 1 THEN <<>>
    ELSE LET e == void_tag_at(text, i, tok)
         IN  IF e = NotPresent THEN find_void_tags(text, i + 1, tok)
             ELSE <<[start |-> i, end |-> e]>> \o find_void_tags(text, e, tok)

Mapping(si, ei, repl) == [start |-> si, end |-> ei, repl |-> repl]

TplOk(t, w) == [kind |-> "ok", text |-> t, msg |-> "", warns |-> w]
TplError(k, m, w) == [kind |-> k, text |-> <<>>, msg |-> m, warns |-> w]

\* get_field_value over the field tags in order: the substitutions and the
\* fields used, or the first error.
RECURSIVE field_subs(_, _, _, _, _)
\* get_field_dict and get_field_value for the tag t with attributes field.
field_value(text, tags, fields_provided, subs, used, t, field) ==
    IF field.kind # "ok"
    THEN [kind |-> field.kind, subs |-> <<>>, used |-> used, msg |-> field.msg]
    ELSE IF ~MapHas(field.attrs, AttrName)
    THEN [kind |-> "BuildError", subs |-> <<>>, used |-> used,
          msg |-> "a field tag is missing the attribute --name"]
    ELSE IF MapHas(fields_provided, field.attrs[AttrName])
    THEN field_subs(text, Tail(tags), fields_provided,
             Append(subs, Mapping(t.start, t.end,
                                  fields_provided[field.attrs[AttrName]])),
             used \cup {field.attrs[AttrName]})
    ELSE IF MapHas(field.attrs, AttrDefault)
    THEN field_subs(text, Tail(tags), fields_provided,
             Append(subs, Mapping(t.start, t.end, field.attrs[AttrDefault])),
             used \cup {field.attrs[AttrName]})
    ELSE [kind |-> "DocumentError", subs |-> <<>>, used |-> used,
          msg |-> "field required"]

field_subs(text, tags, fields_provided, subs, used) ==
    IF tags = <<>> THEN [kind |-> "ok", subs |-> subs, used |-> used, msg |-> ""]
    ELSE field_value(text, tags, fields_provided, subs, used, Head(tags),
             parse_attributes(Slice(text, Head(tags).start, Head(tags).end)))

RECURSIVE inner_subs(_, _)
inner_subs(tags, inner_html) ==
    IF tags = <<>> THEN <<>>
    ELSE <<Mapping(Head(tags).start, Head(tags).end, inner_html)>>
             \o inner_subs(Tail(tags), inner_html)

\* subs.sort(key=lambda r: r.start)
RemoveAt(s, k) == SubSeq(s, 1, k - 1) \o SubSeq(s, k + 1, Len(s))

sort_subs_unsorted(subs) == subs

RECURSIVE sort_subs(_)
sort_subs(subs) ==
    IF subs = <<>> THEN <<>>
    ELSE LET k == CHOOSE i \in 1..Len(subs) :
                      \A j \in 1..Len(subs) :
                          \/ subs[i].start < subs[j].start
                          \/ (subs[i].start = subs[j].start /\ i <= j)
         IN  <<subs[k]>> \o sort_subs(RemoveAt(subs, k))

\* The splice loop: the text, or "overlapping tags".
RECURSIVE splice(_, _, _, _)
splice(text, subs, cursor, parts) ==
    IF subs = <<>> THEN [kind |-> "ok", text |-> parts \o From(text, cursor)]
    ELSE IF cursor > Head(subs).start
         THEN [kind |-> "DocumentError", text |-> <<>>]
         ELSE splice(text, Tail(subs), Head(subs).end,
                     parts \o Slice(text, cursor, Head(subs).start)
                           \o Head(subs).repl)

\* The elements of a set as a sequence; Python leaves the order open.
RECURSIVE SetToSeq(_)
SetToSeq(S) ==
    IF S = {} THEN <<>>
    ELSE LET x == CHOOSE y \in S : TRUE IN <<x>> \o SetToSeq(S \ {x})

\* Lines 313-328: the warnings, the sort and the splice loop.
template_spliced(out, unused_fields) ==
    IF out.kind # "ok"
    THEN TplError("DocumentError", "overlapping tags", unused_fields)
    ELSE TplOk(out.text, unused_fields)

\* Lines 310-328, fs being what the field tags resolved to.
template_with(text, fs, inner_html_tags, fields_provided, inner_html) ==
    IF fs.kind # "ok" THEN TplError(fs.kind, fs.msg, <<>>)
    ELSE template_spliced(
             splice(text,
                    sort_subs(fs.subs \o inner_subs(inner_html_tags, inner_html)),
                    0, <<>>),
             SetToSeq((DOMAIN fields_provided) \ fs.used))

process_template(template, fields_provided, inner_html) ==
    template_with(template.content,
        field_subs(template.content, find_void_tags(template.content, 0, TField),
                   fields_provided, <<>>, {}),
        find_void_tags(template.content, 0, TInner),
        fields_provided, inner_html)

(***************************************************************************)
(* process_html(html_content, templates).                                  *)
(***************************************************************************)
\* str.split(sep): the segments between the separators.
RECURSIVE split(_, _)
split(text, sep) ==
    LET k == index_of(text, sep, 0)
    IN  IF k = NotPresent THEN <<text>>
        ELSE <<Slice(text, 0, k)>> \o split(From(text, k + 1), sep)

\* str.strip()
RECURSIVE rstrip(_)
rstrip(text) ==
    IF text # <<>> /\ text[Len(text)] = SP
    THEN rstrip(SubSeq(text, 1, Len(text) - 1)) ELSE text
strip(text) == rstrip(From(text, skip_in(text, 0, {SP})))

\* The loop over fields_str.split(";").
RECURSIVE parse_fields(_, _)
parse_fields(field_strs, fields) ==
    IF field_strs = <<>> THEN [kind |-> "ok", fields |-> fields]
    ELSE LET field_list == split(Head(field_strs), COLON)
         IN  IF Len(field_list) # 2
             THEN [kind |-> "DocumentError", fields |-> fields]
             ELSE parse_fields(Tail(field_strs),
                      MapPut(fields, strip(field_list[1]), strip(field_list[2])))

\* The loop over attr.items() taking the $-prefixed attributes.
dollar_fields(attrs, fields) ==
    LET dollars == {n \in DOMAIN attrs : n # <<>> /\ Head(n) = DOLLAR}
        keys == (DOMAIN fields) \cup {Tail(n) : n \in dollars}
    IN  [k \in keys |->
            IF \E n \in dollars : Tail(n) = k
            THEN attrs[CHOOSE n \in dollars : Tail(n) = k]
            ELSE fields[k]]

HtmlFinal(t) == [kind |-> "final", text |-> t, msg |-> "", warns |-> <<>>]
HtmlStep(t, w) == [kind |-> "step", text |-> t, msg |-> "", warns |-> w]
HtmlOk(t, w) == [kind |-> "ok", text |-> t, msg |-> "", warns |-> w]
HtmlError(k, m, w) == [kind |-> k, text |-> <<>>, msg |-> m, warns |-> w]

splice_keep_close(text, m, repl) ==
    Slice(text, 0, m.start) \o repl \o From(text, m.html_end)

\* text[:start] + repl + text[end:]
splice_usage(text, m, repl) ==
    Slice(text, 0, m.start) \o repl \o From(text, m.end)

\* The loop over fields_str.split(";"), entered when --fields is given and
\* not empty.
bulk_fields(attrs) ==
    IF MapHas(attrs, AttrFields) /\ attrs[AttrFields] # <<>>
    THEN parse_fields(split(attrs[AttrFields], SEMI), EmptyMap)
    ELSE [kind |-> "ok", fields |-> EmptyMap]

\* The usage m replaced by what process_template returned.
expand_replace(text, m, repl) ==
    IF repl.kind # "ok" THEN HtmlError(repl.kind, repl.msg, repl.warns)
    ELSE HtmlStep(splice_usage(text, m, repl.text), repl.warns)

\* The fields of the usage are collected and its template is applied.
expand_fields(text, tpls, m, attrs, bulk) ==
    IF bulk.kind # "ok"
    THEN HtmlError("DocumentError", "couldn't parse field", <<>>)
    ELSE expand_replace(text, m,
             process_template(tpls[attrs[AttrName]],
                              dollar_fields(attrs, bulk.fields),
                              Slice(text, m.html_start, m.html_end)))

\* The attributes attr of the usage's tag name its template.
expand_usage(text, tpls, m, attr) ==
    IF attr.kind # "ok" THEN HtmlError("DocumentError", attr.msg, <<>>)
    ELSE IF ~MapHas(attr.attrs, AttrName)
    THEN HtmlError("DocumentError", "template name required", <<>>)
    ELSE IF ~MapHas(tpls, attr.attrs[AttrName])
    THEN HtmlError("KeyError", attr.attrs[AttrName], <<>>)
    ELSE expand_fields(text, tpls, m, attr.attrs, bulk_fields(attr.attrs))

\* What find_tag returned decides: no usage, a defect, or a usage m.
expand_match(text, tpls, m) ==
    IF m.kind = "none" THEN HtmlFinal(text)
    ELSE IF m.kind = "error" THEN HtmlError("DocumentError", m.msg, <<>>)
    ELSE expand_usage(text, tpls, m,
             parse_attributes(Slice(text, m.start, m.html_start)))

\* One activation of process_html up to its recursive call: the text is
\* final, or one usage is resolved, or an exception leaves.
expand_once(text, tpls) == expand_match(text, tpls, find_tag(TemplateTag, text))

RECURSIVE process_html(_, _)
\* The recursive call of line 371, after the activation that returned r.
process_html_rest(r, tpls) ==
    IF r.kind = "final" THEN HtmlOk(r.text, <<>>)
    ELSE IF r.kind = "step"
    THEN [process_html(r.text, tpls) EXCEPT !.warns = r.warns \o @]
    ELSE r

process_html(html_content, tpls) ==
    process_html_rest(expand_once(html_content, tpls), tpls)

(***************************************************************************)
(* template_names(page).                                                   *)
(***************************************************************************)
NamesOk(n) == [kind |-> "ok", names |-> n, msg |-> ""]
NamesError(k, m) == [kind |-> k, names |-> {}, msg |-> m]

\* The while loop; parse_attributes is called outside the try, so its
\* DocumentError leaves as it is.
RECURSIVE template_names_loop(_, _)
\* Lines 404-410: the tag of the match m, its name, and the narrowing of the
\* search to the content of m.
template_names_tag(text, names, m, attr) ==
    IF attr.kind # "ok" THEN NamesError("DocumentError", attr.msg)
    ELSE IF ~MapHas(attr.attrs, AttrName)
    THEN NamesError("BuildError", "template name required")
    ELSE template_names_loop(Slice(text, m.html_start, m.html_end),
                             names \cup {attr.attrs[AttrName]})

\* Lines 399-403: what find_tag returned.
template_names_match(text, names, m) ==
    IF m.kind = "error" THEN NamesError("BuildError", m.msg)
    ELSE IF m.kind = "none" THEN NamesOk(names)
    ELSE template_names_tag(text, names, m,
             parse_attributes(Slice(text, m.start, m.html_start)))

template_names_loop(text, names) ==
    template_names_match(text, names, find_tag(TemplateTag, text))

template_names(page) ==
    IF ~page.is_doc THEN NamesOk({}) ELSE template_names_loop(page.content, {})

(***************************************************************************)
(* create_page_builds(pages_path, templates_path, out_path, force_rebuild). *)
(***************************************************************************)
NoFile == [relpath |-> "", mtime |-> 0, content |-> <<>>]
NotProcessed == <<"None">>
NoName == <<>>

Raised(k, doc, m, name) ==
    [kind |-> k, doc |-> doc, msg |-> m, name |-> name]
NotRaised == Raised("none", "", "", NoName)

Warning(context, m, what) == [context |-> context, msg |-> m, what |-> what]

\* get_templates_used(page): the dict, or the exception that leaves.
templates_used_of(page, tpls, tn) ==
    IF tn.kind = "BuildError"
    THEN [kind |-> "error",
          raised |-> Raised("BuildError", page.relpath, tn.msg, NoName),
          used |-> EmptyMap]
    ELSE IF tn.kind = "DocumentError"
    THEN [kind |-> "error",
          raised |-> Raised("DocumentError", "", tn.msg, NoName),
          used |-> EmptyMap]
    ELSE IF tn.names \ DOMAIN tpls # {}
    THEN [kind |-> "error",
          raised |-> Raised("BuildError", page.relpath,
                            "template doesn't exist",
                            CHOOSE n \in tn.names \ DOMAIN tpls : TRUE),
          used |-> EmptyMap]
    ELSE [kind |-> "ok", raised |-> NotRaised,
          used |-> [n \in tn.names |-> tpls[n]]]

get_templates_used(page, tpls) ==
    templates_used_of(page, tpls, template_names(page))

\* get_existing(page)
get_existing(page, built_files) ==
    IF \E f \in built_files : f.relpath = page.relpath
    THEN CHOOSE f \in built_files : f.relpath = page.relpath
    ELSE NoFile

\* has_src(page)
has_src(f, pages) == \E i \in 1..Len(pages) : pages[i].relpath = f.relpath

\* PageBuild.__init__
PageBuild(src, replace, used) ==
    [src |-> src, replace |-> replace, templates |-> used,
     has_processed |-> (src.is_doc /\ used # EmptyMap),
     processed |-> NotProcessed]

\* max(..., key = lambda doc: doc.mtime).mtime
RECURSIVE max_mtime(_)
max_mtime(docs) ==
    IF Len(docs) = 1 THEN docs[1].mtime
    ELSE LET rest == max_mtime(Tail(docs))
         IN  IF rest > docs[1].mtime THEN rest ELSE docs[1].mtime

MapValues(m) == SetToSeq({m[k] : k \in DOMAIN m})

is_required_on_tie(build, force) ==
    \/ force
    \/ build.replace = NoFile
    \/ max_mtime(<<build.src>> \o MapValues(build.templates))
           >= build.replace.mtime

is_required(build, force) ==
    \/ force
    \/ build.replace = NoFile
    \/ max_mtime(<<build.src>> \o MapValues(build.templates))
           > build.replace.mtime

\* The list comprehension building page_builds: the first exception leaves.
RECURSIVE all_page_builds(_, _, _, _)
page_build_with(pages, built_files, tpls, acc, used) ==
    IF used.kind # "ok"
    THEN [kind |-> "error", raised |-> used.raised, builds |-> <<>>]
    ELSE all_page_builds(Tail(pages), built_files, tpls,
             Append(acc, PageBuild(Head(pages),
                                   get_existing(Head(pages), built_files),
                                   used.used)))

all_page_builds(pages, built_files, tpls, acc) ==
    IF pages = <<>> THEN [kind |-> "ok", raised |-> NotRaised, builds |-> acc]
    ELSE page_build_with(pages, built_files, tpls, acc,
                         get_templates_used(Head(pages), tpls))

RECURSIVE required_builds(_, _)
required_builds(builds, force) ==
    IF builds = <<>> THEN <<>>
    ELSE (IF is_required(Head(builds), force) THEN <<Head(builds)>> ELSE <<>>)
         \o required_builds(Tail(builds), force)

\* The warning of lines 442-443.
stray_warning(stray_pages) ==
    IF stray_pages # {}
    THEN <<Warning("", "stray files in build directory", stray_pages)>>
    ELSE <<>>

\* Line 452, over the page builds of line 445.
page_builds_required(all, warns, force) ==
    [kind |-> all.kind, raised |-> all.raised, warns |-> warns,
     builds |-> required_builds(all.builds, force)]

create_page_builds(pages, tpls, built_files, force) ==
    page_builds_required(
        all_page_builds(pages, built_files, tpls, <<>>),
        stray_warning({f.relpath : f \in {g \in built_files : ~has_src(g, pages)}}),
        force)

(***************************************************************************)
(* process(page_build) and save(page_build).                               *)
(***************************************************************************)
\* The page_build after process(), the warnings it raised, and the exception
\* that leaves, if any.
process_outcome(page_build, r, ctx) ==
    LET warns == [i \in 1..Len(r.warns) |->
                     Warning(ctx, "field not used", {r.warns[i]})]
    IN  IF r.kind = "ok"
        THEN [build |-> [page_build EXCEPT !.processed = r.text],
              warns |-> warns, raised |-> NotRaised]
        ELSE IF r.kind = "DocumentError"
        THEN [build |-> page_build, warns |-> warns,
              raised |-> Raised("BuildError", ctx, r.msg, NoName)]
        ELSE IF r.kind = "BuildError"
        THEN \* raised inside process_template, which names the template's path
             [build |-> page_build, warns |-> warns,
              raised |-> Raised("BuildError", "template", r.msg, NoName)]
        ELSE [build |-> page_build, warns |-> warns,
              raised |-> Raised("KeyError", "", "", r.msg)]

process(page_build) ==
    IF ~page_build.has_processed
    THEN [build |-> page_build, warns |-> <<>>, raised |-> NotRaised]
    ELSE process_outcome(page_build,
             process_html(page_build.src.content, page_build.templates),
             page_build.src.relpath)

Now == MaxTime + 1

\* The two asserts of save().
save_asserts(page_build, tree) ==
    IF page_build.replace = NoFile
    THEN ~\E f \in tree : f.relpath = page_build.src.relpath
    ELSE \E f \in tree : f.relpath = page_build.src.relpath

\* The output tree after save() has written the file.
save(page_build, tree) ==
    {f \in tree : f.relpath # page_build.src.relpath}
    \cup {[relpath |-> page_build.src.relpath, mtime |-> Now,
           content |-> IF page_build.has_processed
                       THEN page_build.processed
                       ELSE page_build.src.content]}

\* warn.print(): pops the stack until it is empty.
RECURSIVE Reverse(_)
Reverse(q) == IF q = <<>> THEN <<>> ELSE Append(Reverse(Tail(q)), Head(q))

(***************************************************************************)
(* Inputs of the function calls.                                           *)
(***************************************************************************)
SeqsUpTo(S, n) == UNION {[1..k -> S] : k \in 0..n}

\* Texts for find_tag: any arrangement of tag forms, `>`, a quote and text,
\* and opening tags with any arrangement of quotes, backslashes and `>`.
FindTexts ==
    SeqsUpTo({TOpen, TClose, GT, DQ, "x"}, MaxLen)
    \cup {<<TOpen>> \o q \o <<GT, "x", TClose, GT>> :
            q \in SeqsUpTo({DQ, SQ, BS, GT, "x"}, MaxQuoted)}

Pending == [kind |-> "pending"]
NoFields == <<>>

FnIdle ==
    /\ fpc = "idle" /\ in_text = <<>> /\ in_fields = NoFields
    /\ in_inner = <<>> /\ in_atoms = <<>> /\ ret = Pending

RunIdle ==
    /\ src_pages = <<>> /\ templates = <<>> /\ out_tree = {}
    /\ out_before = {} /\ dry_run = FALSE /\ force_rebuild = FALSE
    /\ pc = "idle" /\ page_builds = <<>> /\ idx = 0 /\ files_saved = 0
    /\ status = "none" /\ raised = "none" /\ warn_stack = <<>>
    /\ printed = <<>>

InitFind ==
    /\ RunIdle
    /\ fpc = "call"
    /\ in_text \in FindTexts
    /\ in_fields = NoFields /\ in_inner = <<>> /\ in_atoms = <<>>
    /\ ret = Pending

CallFindTag ==
    /\ fpc = "call"
    /\ ret' = find_tag(TemplateTag, in_text)
    /\ fpc' = "done"
    /\ UNCHANGED <<in_text, in_fields, in_inner, in_atoms>>
    /\ UNCHANGED run_vars

NextFind == CallFindTag

SpecFind == InitFind /\ [][NextFind]_vars

(***************************************************************************)
(* process_template called on templates put together from parts.           *)
(***************************************************************************)
TextAtom(toks) == [kind |-> "text", toks |-> toks, name |-> <<>>,
                   has_default |-> FALSE, default |-> <<>>]
FieldAtom(name) == [kind |-> "field", toks |-> <<>>, name |-> name,
                    has_default |-> FALSE, default |-> <<>>]
FieldAtomDefault(name, d) == [kind |-> "field", toks |-> <<>>, name |-> name,
                              has_default |-> TRUE, default |-> d]
SlotAtom == [kind |-> "slot", toks |-> <<>>, name |-> <<>>,
             has_default |-> FALSE, default |-> <<>>]

TemplateAtoms == {TextAtom(<<"<h1", GT>>), TextAtom(<<"</h1", GT>>),
                  FieldAtom(<<"title">>),
                  FieldAtomDefault(<<"sub">>, <<"dflt">>), SlotAtom}

\* The markup of one part, as a template author writes it.
AtomText(a) ==
    CASE a.kind = "text" -> a.toks
      [] a.kind = "slot" -> <<TInner, GT>>
      [] a.kind = "field" /\ ~a.has_default ->
            <<TField, SP, "--name", EQ, DQ>> \o a.name \o <<DQ, GT>>
      [] a.kind = "field" /\ a.has_default ->
            <<TField, SP, "--name", EQ, DQ>> \o a.name
                \o <<DQ, SP, "--default", SP, EQ, SP, DQ>> \o a.default
                \o <<DQ, SP, SLASH, GT>>

RECURSIVE Flatten(_)
Flatten(atoms) ==
    IF atoms = <<>> THEN <<>> ELSE AtomText(Head(atoms)) \o Flatten(Tail(atoms))

Map1(k, v) == MapPut(EmptyMap, k, v)
FieldMappings ==
    {EmptyMap,
     Map1(<<"title">>, <<"Hi">>),
     MapPut(Map1(<<"title">>, <<"Hi">>), <<"sub">>, <<"y">>),
     MapPut(Map1(<<"title">>, <<"Hi">>), <<"extra">>, <<"x">>)}
InnerHtmls == {<<>>, <<"<p", GT, "body", "</p", GT>>, <<TInner, GT>>}

InitTemplate ==
    /\ RunIdle
    /\ fpc = "call"
    /\ in_atoms \in SeqsUpTo(TemplateAtoms, MaxAtoms)
    /\ in_text = Flatten(in_atoms)
    /\ in_fields \in FieldMappings
    /\ in_inner \in InnerHtmls
    /\ ret = Pending

CallProcessTemplate ==
    /\ fpc = "call"
    /\ ret' = process_template(
                  [relpath |-> "t.html", content |-> in_text, mtime |-> 1],
                  in_fields, in_inner)
    /\ fpc' = "done"
    /\ UNCHANGED <<in_text, in_fields, in_inner, in_atoms>>
    /\ UNCHANGED run_vars

NextTemplate == CallProcessTemplate

SpecTemplate == InitTemplate /\ [][NextTemplate]_vars

(***************************************************************************)
(* Claims about process_template.                                          *)
(***************************************************************************)
IsMarkup(t) == t \in {TField, TInner}
RECURSIVE CountMarkup(_)
CountMarkup(text) ==
    IF text = <<>> THEN 0
    ELSE (IF IsMarkup(Head(text)) THEN 1 ELSE 0) + CountMarkup(Tail(text))

\* F covers a placeholder directly or through the placeholder's default.
Covers(atoms, F) ==
    \A i \in 1..Len(atoms) :
        atoms[i].kind = "field" => (MapHas(F, atoms[i].name) \/ atoms[i].has_default)

\* What a part of the template is to become.
Resolved(a, F, content) ==
    CASE a.kind = "text" -> a.toks
      [] a.kind = "slot" -> content
      [] a.kind = "field" ->
            IF MapHas(F, a.name) THEN F[a.name] ELSE a.default

RECURSIVE Rendered(_, _, _)
Rendered(atoms, F, content) ==
    IF atoms = <<>> THEN <<>>
    ELSE Resolved(Head(atoms), F, content) \o Rendered(Tail(atoms), F, content)

\* The placeholder markup that the substituted values bring in themselves.
RECURSIVE MarkupBroughtIn(_, _, _)
MarkupBroughtIn(atoms, F, content) ==
    IF atoms = <<>> THEN 0
    ELSE (IF Head(atoms).kind = "text" THEN 0
          ELSE CountMarkup(Resolved(Head(atoms), F, content)))
         + MarkupBroughtIn(Tail(atoms), F, content)

\* C6: for a well-formed template and a field mapping covering every
\* placeholder, process_template returns the template's text with every
\* field placeholder replaced by its resolved value and every content slot
\* by the content verbatim, the rest unchanged and in order; no placeholder
\* or slot of the template remains in the result.
C6_TemplateResolved ==
    (fpc = "done" /\ Covers(in_atoms, in_fields)) =>
        /\ ret.kind = "ok"
        /\ ret.text = Rendered(in_atoms, in_fields, in_inner)
        /\ CountMarkup(ret.text)
               = MarkupBroughtIn(in_atoms, in_fields, in_inner)

\* C6 as first stated: for a well-formed template and a covering field
\* mapping the result is the rendered template and holds no field
\* placeholder and no content slot markup at all.
C6_NoMarkupRemains ==
    (fpc = "done" /\ Covers(in_atoms, in_fields)) =>
        /\ ret.kind = "ok"
        /\ ret.text = Rendered(in_atoms, in_fields, in_inner)
        /\ CountMarkup(ret.text) = 0

\* The card template of the end-to-end scenario, resolved.
C6_Witness ==
    /\ fpc = "done"
    /\ in_atoms = <<TextAtom(<<"<h1", GT>>), FieldAtom(<<"title">>),
                    TextAtom(<<"</h1", GT>>), SlotAtom>>
    /\ in_fields = Map1(<<"title">>, <<"Hi">>)
    /\ in_inner = <<"<p", GT, "body", "</p", GT>>
    /\ ret.kind = "ok"
    /\ ret.text = <<"<h1", GT, "Hi", "</h1", GT, "<p", GT, "body", "</p", GT>>

(***************************************************************************)
(* process_html called on documents of nested and sibling usages.  The     *)
(* templates hold no usage tag; every usage names a template that exists   *)
(* and supplies the fields its template requires.                          *)
(***************************************************************************)
Doc(relpath, content, mtime) ==
    [relpath |-> relpath, is_doc |-> TRUE, content |-> content, mtime |-> mtime]

CardText == <<"<h1", GT, TField, SP, "--name", EQ, DQ, "title", DQ, GT,
              "</h1", GT,
              TField, SP, "--name", EQ, DQ, "sub", DQ, SP, "--default", EQ,
              DQ, "dflt", DQ, SLASH, GT,
              TInner, GT>>
BoxText == <<"<p", GT, TInner, GT, "</p", GT>>

HtmlTemplates ==
    MapPut(Map1(<<"card">>, Doc("card.html", CardText, 1)),
           <<"box">>, Doc("box.html", BoxText, 1))

UseName(n) == <<TOpen, SP, "--name", EQ, DQ, n, DQ>>
UsageHeads ==
    {UseName("card") \o <<SP, DOLLAR, "title", EQ, DQ, "Hi", DQ, GT>>,
     UseName("card") \o <<SP, "--fields", EQ, DQ, "title", COLON, SP, "Hi",
                          SEMI, SP, "sub", COLON, "y", DQ, GT>>,
     UseName("box") \o <<SP, DOLLAR, "extra", EQ, DQ, "x", DQ, GT>>}

RECURSIVE UsageItems(_)
RECURSIVE UsageDocs(_)
UsageItems(d) ==
    {h \o inner \o <<TClose, GT>> : h \in UsageHeads, inner \in UsageDocs(d - 1)}
UsageDocs(d) ==
    IF d = 0 THEN {<<>>, <<"x">>}
    ELSE UsageDocs(d - 1) \cup UsageItems(d)
         \cup {a \o <<"y">> \o b : a \in UsageItems(d), b \in UsageItems(1)}

RECURSIVE CountUsages(_)
CountUsages(text) ==
    IF text = <<>> THEN 0
    ELSE (IF Head(text) = TOpen THEN 1 ELSE 0) + CountUsages(Tail(text))

InitHtml ==
    /\ RunIdle
    /\ fpc = "call"
    /\ in_text \in UsageDocs(MaxDepth)
    /\ in_atoms = in_text
    /\ in_fields = NoFields /\ in_inner = <<>>
    /\ ret = Pending

\* One activation of process_html; in_text is its html_content.
ExpandStep ==
    /\ fpc = "call"
    /\ \E r \in {expand_once(in_text, HtmlTemplates)} :
           IF r.kind = "step"
           THEN /\ in_text' = r.text
                /\ UNCHANGED <<fpc, ret>>
           ELSE /\ ret' = IF r.kind = "final" THEN HtmlOk(r.text, <<>>) ELSE r
                /\ fpc' = "done"
                /\ UNCHANGED in_text
    /\ UNCHANGED <<in_fields, in_inner, in_atoms>>
    /\ UNCHANGED run_vars

NextHtml == ExpandStep

SpecHtml == InitHtml /\ [][NextHtml]_vars

(***************************************************************************)
(* Claims about process_html.                                              *)
(***************************************************************************)
Tokens(text) == {text[i] : i \in 1..Len(text)}

C5_NoUsageLeft ==
    [](fpc = "done" => /\ ret.kind = "ok"
                       /\ CountUsages(ret.text) = 0
                       /\ TClose \notin Tokens(ret.text))
C5_Progress ==
    [][fpc' = "done" \/ CountUsages(in_text') < CountUsages(in_text)]_vars

\* C5: on a document of well-formed, possibly nested usages of existing
\* templates that hold no usage tag, process_html terminates (every
\* activation either returns or recurses on a text with strictly fewer
\* unresolved usage tags) and its result holds no usage tag.
C5_ExpandTerminates == C5_NoUsageLeft /\ C5_Progress

\* A document with a nested usage and a sibling usage, fully expanded.
C5_Witness ==
    /\ fpc = "done" /\ ret.kind = "ok"
    /\ CountUsages(in_atoms) >= 3
    /\ in_atoms[Len(UseName("card")) + 8 + 1] = TOpen

(***************************************************************************)
(* Claims about find_tag.                                                  *)
(***************************************************************************)
FormPos(text) == {i \in 0..(Len(text) - 1) : At(text, i) \in {TOpen, TClose}}
OpenPos(text) == {i \in 0..(Len(text) - 1) : At(text, i) = TOpen}
ClosePos(text) == {i \in 0..(Len(text) - 1) : At(text, i) = TClose}
MinOf(S) == CHOOSE m \in S : \A n \in S : m <= n

\* The end of an opening tag when a backslash-escaped quote neither opens
\* nor closes a quoted value.
RealTagEnd(text, begin_index) ==
    iiq_loop_escaped_close(text, GT, begin_index, NoQuote)

HasEscapedQuoteThenGT(text, a, b) ==
    \E i \in a..(b - 3) :
        At(text, i) = BS /\ At(text, i + 1) = DQ /\ At(text, i + 2) = GT

\* C8: scanning an opening tag, a `>` inside a quoted value never ends the
\* tag and a backslash-escaped quote neither opens nor closes a value: the
\* content start that find_tag returns is just after the real closing `>`.
C8_QuotedGtNeverTerminates ==
    (/\ fpc = "done" /\ ret.kind = "match"
     /\ RealTagEnd(in_text, ret.start) # NotPresent
     /\ HasEscapedQuoteThenGT(in_text, ret.start,
                              RealTagEnd(in_text, ret.start)))
        => ret.html_start = RealTagEnd(in_text, ret.start) + 1

\* C9: a match pairs the closing tag with the most recently seen opening
\* tag: the offsets are ordered, the opening tag ends at html_start, and the
\* content holds no form of the tag; not-found only without any form; an
\* error when a closing form comes first or no closing form follows.
C9_InnermostMatch ==
    fpc = "done" =>
        LET t == in_text
            forms == FormPos(t)
        IN  /\ ret.kind \in {"none", "match", "error"}
            /\ ret.kind = "match" =>
                 /\ 0 <= ret.start /\ ret.start < ret.html_start
                 /\ ret.html_start <= ret.html_end
                 /\ ret.html_end < ret.end /\ ret.end <= Len(t)
                 /\ At(t, ret.start) = TOpen
                 /\ ret.html_start
                        = index_ignore_quoted(t, GT, ret.start) + 1
                 /\ At(t, ret.html_end) = TClose
                 /\ At(t, ret.end - 1) = GT
                 /\ \A i \in ret.html_start..(ret.html_end - 1) :
                        i \notin forms
            /\ ret.kind = "none" => forms = {}
            /\ (forms # {} /\ At(t, MinOf(forms)) = TClose)
                    => ret.kind = "error"
            /\ (OpenPos(t) # {}
                /\ \A j \in ClosePos(t) : j < MinOf(OpenPos(t)))
                    => ret.kind = "error"

\* A nested usage: the match is the inner tag, inside an enclosing one.
C9_Witness ==
    /\ fpc = "done" /\ ret.kind = "match"
    /\ ret.start > 0 /\ At(in_text, 0) = TOpen
(***************************************************************************)
(* run(docs_path, template_path, out_path, dry_run, force_rebuild) on a    *)
(* source tree of one or two files.                                        *)
(***************************************************************************)
Blob(relpath, mtime) ==
    [relpath |-> relpath, is_doc |-> FALSE, content |-> <<"bytes">>,
     mtime |-> mtime]
Built(relpath, mtime) ==
    [relpath |-> relpath, mtime |-> mtime, content |-> <<"old">>]

BadText == <<TField, SP, "--name", EQ, DQ, "a", DQ, SP, "--default", EQ, DQ,
             TInner, GT, DQ, GT>>

RunTemplates(tm) ==
    MapPut(MapPut(Map1(<<"card">>, Doc("card.html", CardText, tm)),
                  <<"box">>, Doc("box.html", BoxText, 1)),
           <<"bad">>, Doc("bad.html", BadText, 1))

CloseTag == <<TClose, GT>>
Body == <<"<p", GT, "body", "</p", GT>>
UseCardTitle == UseName("card") \o <<SP, DOLLAR, "title", EQ, DQ, "Hi", DQ, GT>>

DocPlain == <<"x">>
DocCard == UseCardTitle \o Body \o CloseTag
DocSiblings == DocCard \o UseName("box") \o <<GT, "x">> \o CloseTag
DocSiblingMissing == DocCard \o UseName("nope") \o <<GT, "x">> \o CloseTag
DocMissing == UseName("nope") \o <<GT, "x">> \o CloseTag
DocNested == UseName("box") \o <<GT>> \o DocCard \o CloseTag
DocEnclosingMissing == UseName("nope") \o <<GT>> \o DocCard \o CloseTag
DocMalformed == <<TOpen, SP, "--name", EQ, "card", GT, "x", TClose, GT>>
DocUnclosed == UseCardTitle \o <<"x">>
DocMissingField == UseName("card") \o <<GT, "x">> \o CloseTag
DocUnusedField ==
    UseName("card") \o <<SP, DOLLAR, "title", EQ, DQ, "Hi", DQ,
                         SP, DOLLAR, "extra", EQ, DQ, "x", DQ, GT, "x">>
        \o CloseTag
DocNoName == <<TOpen, GT, "x">> \o CloseTag
DocBadFields ==
    UseName("card") \o <<SP, "--fields", EQ, DQ, "title", DQ, GT, "x">>
        \o CloseTag
DocOverlap == UseName("bad") \o <<GT, "x">> \o CloseTag

FirstDocs == {DocPlain, DocCard, DocSiblings, DocSiblingMissing, DocMissing,
              DocNested, DocEnclosingMissing, DocMalformed, DocUnclosed,
              DocMissingField, DocUnusedField, DocNoName, DocBadFields,
              DocOverlap}
SecondDocs == {DocPlain, DocCard, DocSiblingMissing, DocMissingField,
               DocUnusedField}
SecondPages == {<<>>, <<Blob("c.png", 1)>>}
               \cup {<<Doc("b.html", c, 1)>> : c \in SecondDocs}

Times == 1..MaxTime

\* How run() ends: one of its three return statements, or an exception that
\* no except clause of run() catches.
Returned0 == "return 0"
Returned1 == "return 1"
Returned2 == "return 2"
Escaped == "exception"

InitRun ==
    /\ FnIdle
    /\ dry_run \in BOOLEAN
    /\ force_rebuild \in BOOLEAN
    /\ \E tm \in Times : templates = RunTemplates(tm)
    /\ \E a \in FirstDocs, am \in Times, b \in SecondPages :
           src_pages = <<Doc("a.html", a, am)>> \o b
    /\ \E ao \in {0} \cup Times, bo \in {0, 1} :
           out_tree = (IF ao = 0 THEN {} ELSE {Built("a.html", ao)})
                      \cup (IF bo = 0 THEN {} ELSE {Built("b.html", bo)})
    /\ out_before = out_tree
    /\ pc = "start"
    /\ page_builds = <<>> /\ idx = 0 /\ files_saved = 0
    /\ status = "none" /\ raised = NotRaised
    /\ warn_stack = <<>> /\ printed = <<>>

UNCHANGED_FS == UNCHANGED <<src_pages, templates, out_before, dry_run, force_rebuild>>

\* run(), lines 495-502: create_page_builds and how its exception is met.
Plan ==
    /\ pc = "start"
    /\ \E r \in {create_page_builds(src_pages, templates, out_tree, force_rebuild)} :
           /\ warn_stack' = warn_stack \o r.warns
           /\ IF r.kind = "ok"
              THEN /\ page_builds' = r.builds
                   /\ idx' = 1
                   /\ pc' = "process"
                   /\ UNCHANGED <<status, raised>>
              ELSE /\ raised' = r.raised
                   /\ status' = IF r.raised.kind = "BuildError"
                                THEN Returned1 ELSE Escaped
                   /\ pc' = "done"
                   /\ UNCHANGED <<page_builds, idx>>
    /\ UNCHANGED <<out_tree, files_saved, printed>>
    /\ UNCHANGED_FS
    /\ UNCHANGED fn_vars

ProcessUnitAndSave ==
    /\ pc = "process"
    /\ idx <= Len(page_builds)
    /\ \E r \in {process(page_builds[idx])} :
           /\ warn_stack' = warn_stack \o r.warns
           /\ IF r.raised.kind = "none"
              THEN /\ page_builds' = [page_builds EXCEPT ![idx] = r.build]
                   /\ idx' = idx + 1
                   /\ out_tree' = save(r.build, out_tree)
                   /\ UNCHANGED <<pc, status, raised>>
              ELSE /\ raised' = r.raised
                   /\ status' = IF r.raised.kind = "BuildError"
                                THEN Returned1 ELSE Escaped
                   /\ pc' = "done"
                   /\ UNCHANGED <<page_builds, idx, out_tree>>
    /\ UNCHANGED <<files_saved, printed>>
    /\ UNCHANGED_FS
    /\ UNCHANGED fn_vars

\* run(), lines 497-502: one turn of the loop calling process(b).
ProcessUnit ==
    /\ pc = "process"
    /\ idx <= Len(page_builds)
    /\ \E r \in {process(page_builds[idx])} :
           /\ warn_stack' = warn_stack \o r.warns
           /\ IF r.raised.kind = "none"
              THEN /\ page_builds' = [page_builds EXCEPT ![idx] = r.build]
                   /\ idx' = idx + 1
                   /\ UNCHANGED <<pc, status, raised>>
              ELSE /\ raised' = r.raised
                   /\ status' = IF r.raised.kind = "BuildError"
                                THEN Returned1 ELSE Escaped
                   /\ pc' = "done"
                   /\ UNCHANGED <<page_builds, idx>>
    /\ UNCHANGED <<out_tree, files_saved, printed>>
    /\ UNCHANGED_FS
    /\ UNCHANGED fn_vars

\* run(), lines 504-510 and 524-525: after the loop.
AfterProcess ==
    /\ pc = "process"
    /\ idx > Len(page_builds)
    /\ IF page_builds = <<>>
       THEN /\ status' = Returned0 /\ pc' = "done"
            /\ UNCHANGED <<warn_stack, printed, idx, files_saved>>
       ELSE IF dry_run
       THEN /\ printed' = printed \o Reverse(warn_stack)
            /\ warn_stack' = <<>>
            /\ status' = Returned0 /\ pc' = "done"
            /\ UNCHANGED <<idx, files_saved>>
       ELSE /\ pc' = "save" /\ idx' = 1 /\ files_saved' = 0
            /\ UNCHANGED <<warn_stack, printed, status>>
    /\ UNCHANGED <<out_tree, page_builds, raised>>
    /\ UNCHANGED_FS
    /\ UNCHANGED fn_vars

\* run(), lines 511-515 and 517-522: one turn of the loop calling save(b).
\* Writing the file may fail (io_fails), like an assert of save().
SaveUnit ==
    /\ pc = "save"
    /\ idx <= Len(page_builds)
    /\ \E io_fails \in BOOLEAN :
           IF io_fails \/ ~save_asserts(page_builds[idx], out_tree)
           THEN /\ raised' = Raised("Exception", page_builds[idx].src.relpath,
                                    "Error while saving", NoName)
                /\ status' = Returned2 /\ pc' = "done"
                /\ UNCHANGED <<out_tree, idx, files_saved>>
           ELSE /\ out_tree' = save(page_builds[idx], out_tree)
                /\ idx' = idx + 1
                /\ files_saved' = files_saved + 1
                /\ UNCHANGED <<raised, status, pc>>
    /\ UNCHANGED <<page_builds, warn_stack, printed>>
    /\ UNCHANGED_FS
    /\ UNCHANGED fn_vars

\* run(), lines 517-525: every file is saved.
FinishSave ==
    /\ pc = "save"
    /\ idx > Len(page_builds)
    /\ printed' = printed \o Reverse(warn_stack)
    /\ warn_stack' = <<>>
    /\ status' = Returned0 /\ pc' = "done"
    /\ UNCHANGED <<out_tree, page_builds, idx, files_saved, raised>>
    /\ UNCHANGED_FS
    /\ UNCHANGED fn_vars

Next == Plan \/ ProcessUnit \/ AfterProcess \/ SaveUnit \/ FinishSave

Spec == InitRun /\ [][Next]_vars

(***************************************************************************)
(* Claims about run() and the build planner.                               *)
(***************************************************************************)
ExistingOf(page) == {f \in out_before : f.relpath = page.relpath}
Selected(page) ==
    \E j \in 1..Len(page_builds) : page_builds[j].src = page
AllExpanded ==
    \A i \in 1..Len(page_builds) :
        page_builds[i].has_processed => page_builds[i].processed # NotProcessed
ExpansionFailed == raised.kind \in {"BuildError", "DocumentError", "KeyError"}

\* C1: no file of the output tree is created or modified unless planning
\* and the expansion of every selected unit have completed without error;
\* when planning or any unit's expansion fails, the tree is as it was.
C1_NoWriteBeforeAllExpanded ==
    /\ out_tree # out_before =>
          /\ pc \in {"save", "done"}
          /\ page_builds # <<>> /\ AllExpanded
          /\ ~ExpansionFailed /\ ~dry_run
    /\ (ExpansionFailed \/ status \in {Returned1, Escaped})
          => out_tree = out_before

\* The second of two selected units fails to expand after the first has
\* been expanded; nothing was written.
C1_Witness ==
    /\ pc = "done" /\ status = Returned1 /\ ~dry_run
    /\ Len(page_builds) = 2 /\ idx = 2
    /\ page_builds[1].processed # NotProcessed
    /\ out_tree = out_before

\* The modification times of the source and of the templates in the unit's
\* referenced-template set.
ModTimes(page) ==
    {page.mtime} \cup {templates[n].mtime : n \in template_names(page).names}

\* C2: without force_rebuild, create_page_builds returns a unit for a source
\* iff no built output has its relative path or the greatest modification
\* time over the source and its referenced templates is strictly greater
\* than the output's; on a tie the unit is not returned.
C2_Freshness ==
    (pc = "process" /\ ~force_rebuild) =>
        \A i \in 1..Len(src_pages) :
            Selected(src_pages[i]) <=>
                \/ ExistingOf(src_pages[i]) = {}
                \/ \E f \in ExistingOf(src_pages[i]) :
                       \E t \in ModTimes(src_pages[i]) : t > f.mtime

\* A tie: the template is newer than the source and exactly as old as the
\* output, and the unit is not returned.
C2_Witness ==
    /\ pc = "process" /\ ~force_rebuild
    /\ src_pages[1].content = DocCard
    /\ ~Selected(src_pages[1])
    /\ src_pages[1].mtime < templates[<<"card">>].mtime
    /\ Built("a.html", templates[<<"card">>].mtime) \in out_before

\* The name of the usage tag that opens at offset i.
UsageNameAt(text, i) ==
    LET e == index_ignore_quoted(text, GT, i)
        a == parse_attributes(Slice(text, i, e + 1))
    IN  IF e # NotPresent /\ a.kind = "ok" /\ MapHas(a.attrs, AttrName)
        THEN {a.attrs[AttrName]} ELSE {}
AllUsageNames(text) == UNION {UsageNameAt(text, i) : i \in OpenPos(text)}
MissingNames(page) == AllUsageNames(page.content) \ DOMAIN templates

\* Enough for create_page_builds to select the page.
SurelySelected(page) ==
    \/ force_rebuild
    \/ ExistingOf(page) = {}
    \/ \E f \in ExistingOf(page) : page.mtime > f.mtime

\* C3: when any usage tag of a selected document (the first, a later sibling
\* or an enclosing one) names a template that does not exist, the run is
\* aborted with no file written and the reported error names the document
\* and the missing template.  Stated for a run over that document alone.
C3_UnknownTemplateAborts ==
    (/\ pc = "done" /\ Len(src_pages) = 1
     /\ MissingNames(src_pages[1]) # {}
     /\ SurelySelected(src_pages[1]))
        => /\ status = Returned1
           /\ out_tree = out_before
           /\ raised.kind = "BuildError"
           /\ raised.doc = src_pages[1].relpath
           /\ raised.name \in MissingNames(src_pages[1])

\* C4: template_names returns the names of all the usage tags of a markup
\* document, so a unit's template mapping holds every template that
\* process_html will look up.
C4_AllTemplateNames ==
    pc = "process" =>
        \A i \in 1..Len(page_builds) :
            page_builds[i].src.is_doc =>
                DOMAIN page_builds[i].templates
                    = AllUsageNames(page_builds[i].src.content)

\* C7: run() ends by returning 0 (nothing to do, or every unit saved), 1
\* (a document defect in planning or expansion, no file altered) or 2 (the
\* write phase failed); no document defect leaves run() another way.
C7_ThreeStatuses ==
    pc = "done" =>
        /\ status \in {Returned0, Returned1, Returned2}
        /\ ExpansionFailed => (status = Returned1 /\ out_tree = out_before)
        /\ raised.kind = "Exception" => status = Returned2
        /\ raised.kind = "none" => status = Returned0

\* C10: every warning raised during a run has been emitted once the run
\* has completed with status 0, the run with nothing to rebuild included.
C10_WarningsEmitted ==
    (pc = "done" /\ status = Returned0) => warn_stack = <<>>

====
